---- MODULE Spec2Model ----
(***************************************************************************)
(* Model of the Japanese lyrics alignment service (src/main.py).           *)
(*                                                                         *)
(* POST /align runs one linear pipeline per request:                       *)
(*   download_audio -> convert_audio_to_wav -> write_lyrics_file ->        *)
(*   run_aeneas_alignment -> parse_aeneas_output,                          *)
(* wrapped in try / except / finally; the finally block removes the four   *)
(* temporary files of the request.                                         *)
(*                                                                         *)
(* The handler is an `async def` that never awaits: urlretrieve and        *)
(* subprocess.run block the event loop, so one server process runs one     *)
(* handler at a time from entry to response.  Several server processes     *)
(* (Workers) share the scratch directory /tmp, and their steps interleave. *)
(*                                                                         *)
(* Strings are sequences of one-character strings, so that '\n' in line    *)
(* and str.strip() are computed, not assumed.  Times are integers          *)
(* (seconds).                                                              *)
(***************************************************************************)
EXTENDS Integers, Sequences, FiniteSets, TLC

VARIABLES
    pc,      \* pc[w]: where the handler of server process w stands
    req,     \* req[w]: request.lyrics of the request w is handling
    uid,     \* uid[w]: unique_id of that request (0: none)
    fs,      \* fs[p]: the file at path p of the scratch directory
    resp,    \* resp[w]: the response (or the HTTPException on its way out)
    hung,    \* hung[w]: the blocking call w is in will never return
    issued,  \* number of unique_id values drawn so far
    stages,  \* stages[w]: the stages the current request has started, in order
    reads,   \* reads[w]: the writers of the files the current request has read
    stuck,   \* stuck[w]: the paths whose os.remove raised during cleanup
    faults,  \* number of os.remove faults the environment has injected
    probes,  \* probes[w]: what each dependency probe of w's startup met
    errors,  \* errors[w]: the errors list check_dependencies built in w
    crashed  \* crashed[w]: the child process of the current request that
             \* exited non-zero, with what it printed on stderr

vars == <<pc, req, uid, fs, resp, hung, issued, stages, reads, stuck, faults,
          probes, errors, crashed>>

----------------------------------------------------------------------------
(* Bounds *)

\* Requests that enter the pipeline (unique_id values drawn) in one behaviour.
MaxRequests == 2
\* Longest lyrics list a request carries in the data-rich specification.
MaxLines == 2
\* os.remove faults the environment injects in one behaviour.
MaxRemoveFaults == 1

\* Server processes sharing /tmp.
Workers == {"w1", "w2"}

Tokens == 1..MaxRequests

----------------------------------------------------------------------------
(* Strings *)

Range(s) == {s[i] : i \in 1..Len(s)}

Min(S) == CHOOSE x \in S : \A y \in S : x <= y

IsSpace(c) == c \in {" ", "\n", "\t"}

RECURSIVE lstrip(_)
lstrip(s) == IF s = <<>> THEN s
             ELSE IF IsSpace(Head(s)) THEN lstrip(Tail(s)) ELSE s

RECURSIVE rstrip(_)
rstrip(s) == IF s = <<>> THEN s
             ELSE IF IsSpace(s[Len(s)]) THEN rstrip(SubSeq(s, 1, Len(s) - 1)) ELSE s

\* str.strip(): leading and trailing whitespace removed.
strip(s) == rstrip(lstrip(s))

\* The lines a request may carry: "", " b " and the multiline "a\nb".
LineSet == { <<>>, <<" ", "b", " ">>, <<"a", "\n", "b">> }

RECURSIVE SeqsUpTo(_, _)
SeqsUpTo(S, n) == IF n = 0 THEN { <<>> }
                  ELSE LET shorter == SeqsUpTo(S, n - 1)
                       IN  shorter \cup { Append(s, x) : s \in shorter, x \in S }

\* Every lyrics list of at most MaxLines lines.
AllLyrics == SeqsUpTo(LineSet, MaxLines)

\* The lyrics lists of the concurrent specification: empty, multiline,
\* and two lines, one with surrounding whitespace.
FewLyrics == { <<>>, << <<"a", "\n", "b">> >>, << <<" ", "b", " ">>, <<>> >> }

----------------------------------------------------------------------------
(* Request validation *)

HasLineBreak(line) == "\n" \in Range(line)

\* The validator without its line-break test.
validate_lyrics_no_linebreak_check(v) ==
    IF v = <<>> THEN [ok |-> FALSE, msg |-> "lyrics cannot be empty", index |-> 0]
    ELSE [ok |-> TRUE, msg |-> "", index |-> 0]

\* The validator without its emptiness test.
validate_lyrics_no_empty_check(v) ==
    LET bad == {i \in 1..Len(v) : HasLineBreak(v[i])}
    IN  IF bad # {}
        THEN [ok |-> FALSE, msg |-> "appears to be a multiline string",
              index |-> Min(bad) - 1]
        ELSE [ok |-> TRUE, msg |-> "", index |-> 0]

\* AlignmentRequest.validate_lyrics.  pydantic has already checked List[str],
\* so the isinstance branches cannot fire; index is the 0-based lyrics[i] of
\* the message.
validate_lyrics(v) ==
    IF v = <<>> THEN [ok |-> FALSE, msg |-> "lyrics cannot be empty", index |-> 0]
    ELSE LET bad == {i \in 1..Len(v) : HasLineBreak(v[i])}
         IN  IF bad # {}
             THEN [ok |-> FALSE, msg |-> "appears to be a multiline string",
                   index |-> Min(bad) - 1]
             ELSE [ok |-> TRUE, msg |-> "", index |-> 0]

----------------------------------------------------------------------------
(* Scratch directory: paths and files *)

\* The four temporary paths of a request, each a prefix joined to unique_id.
downloaded_audio(unique_id) == <<"audio", unique_id>>
converted_audio(unique_id) == <<"converted", unique_id>>

\* The lyrics path without unique_id in it: every request shares one file.
lyrics_file_shared(unique_id) == <<"lyrics", 1>>

lyrics_file(unique_id) == <<"lyrics", unique_id>>
alignment_output(unique_id) == <<"alignment", unique_id>>

Paths == {"audio", "converted", "lyrics", "alignment"} \X Tokens

\* A cleanup list that forgets the alignment output.
cleanup_list_without_alignment(unique_id) ==
    << downloaded_audio(unique_id), converted_audio(unique_id), lyrics_file(unique_id) >>

\* A cleanup list that also holds the audio path of the request before.
cleanup_list_with_neighbour(unique_id) ==
    << downloaded_audio(unique_id), converted_audio(unique_id),
       lyrics_file(unique_id), alignment_output(unique_id),
       downloaded_audio(IF unique_id > 1 THEN unique_id - 1 ELSE unique_id) >>

\* The list the finally block walks.
cleanup_list(unique_id) ==
    << downloaded_audio(unique_id), converted_audio(unique_id),
       lyrics_file(unique_id), alignment_output(unique_id) >>

\* The four paths derived for a request.
OwnPaths(unique_id) ==
    { downloaded_audio(unique_id), converted_audio(unique_id),
      lyrics_file(unique_id), alignment_output(unique_id) }

NoFile == [exists |-> FALSE, by |-> 0, fmt |-> "", data |-> <<>>]

\* A file written by the request whose unique_id is `by`.
File(by, fmt, data) == [exists |-> TRUE, by |-> by, fmt |-> fmt, data |-> data]

\* A writer that does not strip the lines.
RECURSIVE lyrics_text_unstripped(_)
lyrics_text_unstripped(lyrics) ==
    IF lyrics = <<>> THEN <<>>
    ELSE Head(lyrics) \o <<"\n">> \o lyrics_text_unstripped(Tail(lyrics))

\* What write_lyrics_file writes: line.strip() + "\n" for each line.
RECURSIVE lyrics_text(_)
lyrics_text(lyrics) ==
    IF lyrics = <<>> THEN <<>>
    ELSE strip(Head(lyrics)) \o <<"\n">> \o lyrics_text(Tail(lyrics))

----------------------------------------------------------------------------
(* The alignment engine's output *)

\* A JSON scalar: a number float() accepts, or something it rejects.
Num(n) == [ok |-> TRUE, n |-> n]
Junk == [ok |-> FALSE, n |-> 0]

\* An optional key is a sequence of length 0 (absent) or 1 (present).
Absent == <<>>
Has(opt) == Len(opt) > 0

SubLine(b, e) == [begin |-> b, end |-> e]
Fragment(b, e, l) == [begin |-> b, end |-> e, lines |-> l]

\* The fragments the engine may write.
FragmentSet ==
    { Fragment(<<Num(0)>>, <<Num(1)>>, Absent),                    \* direct pair
      Fragment(<<Num(2)>>, <<Num(1)>>, Absent),                    \* end before begin
      Fragment(<<Num(-1)>>, <<Num(1)>>, Absent),                   \* negative begin
      Fragment(<<Junk>>, <<Num(1)>>, Absent),                      \* not a number
      Fragment(<<Num(0)>>, <<Num(1)>>,
               << <<SubLine(<<Num(5)>>, <<Num(6)>>)>> >>),         \* pair and lines
      Fragment(Absent, Absent,
               << <<SubLine(<<Num(1)>>, <<Num(2)>>),
                    SubLine(<<Num(3)>>, <<Num(4)>>)>> >>),         \* lines only
      Fragment(<<Num(3)>>, Absent,
               << <<SubLine(<<Num(1)>>, <<Num(2)>>)>> >>),         \* begin but no end
      Fragment(Absent, Absent,
               << <<SubLine(Absent, <<Num(2)>>),
                    SubLine(<<Num(3)>>, Absent)>> >>),             \* no first begin, no last end
      Fragment(Absent, Absent, << <<>> >>),                        \* empty lines
      Fragment(Absent, Absent, Absent) }                           \* neither

\* The fragments of the concurrent specification.
FewFragments == { Fragment(<<Num(0)>>, <<Num(1)>>, Absent) }

\* The files the engine may leave at the output path for n lyric lines:
\* a JSON object with up to n + 1 fragments, an object without the
\* "fragments" key, text json.load rejects, or nothing.
EngineOutputs(unique_id, n, F) ==
    { File(unique_id, "json", d) : d \in SeqsUpTo(F, n + 1) }
    \cup { File(unique_id, "nokey", <<>>), File(unique_id, "malformed", <<>>), NoFile }

----------------------------------------------------------------------------
(* Exceptions and responses *)

NoExc == [exc |-> "", status |-> 0, detail |-> <<>>]

\* raise HTTPException(status_code, detail)
HTTPException(status_code, detail) ==
    [exc |-> "HTTPException", status |-> status_code, detail |-> detail]

\* Any other exception (OSError, ValueError, IndexError, AttributeError).
OtherException(what) == [exc |-> "Exception", status |-> 0, detail |-> <<what>>]

\* float(x)
float(x) == IF x.ok THEN [exc |-> NoExc, value |-> x.n]
            ELSE [exc |-> OtherException("ValueError"), value |-> 0]

\* A lookup with no default: the absent key yields nothing float() accepts.
get_or_junk(opt) == IF Has(opt) THEN opt[1] ELSE Junk

\* dict.get(key, 0) on a sub-line record
get_or_zero(opt) == IF Has(opt) THEN opt[1] ELSE Num(0)

\* A loop body that looks at the nested records first and at the direct
\* pair only when there are none.
fragment_timing_lines_first(fragment, idx) ==
    LET lines == IF Has(fragment.lines) THEN fragment.lines[1] ELSE <<>>
    IN  IF lines # <<>>
        THEN LET b == float(get_or_zero(lines[1].begin))
                 e == float(get_or_zero(lines[Len(lines)].end))
             IN  IF b.exc.exc # "" THEN [exc |-> b.exc, start |-> 0, end |-> 0]
                 ELSE IF e.exc.exc # "" THEN [exc |-> e.exc, start |-> 0, end |-> 0]
                 ELSE [exc |-> NoExc, start |-> b.value, end |-> e.value]
        ELSE IF Has(fragment.begin) /\ Has(fragment.end)
        THEN LET b == float(fragment.begin[1])
                 e == float(fragment.end[1])
             IN  IF b.exc.exc # "" THEN [exc |-> b.exc, start |-> 0, end |-> 0]
                 ELSE IF e.exc.exc # "" THEN [exc |-> e.exc, start |-> 0, end |-> 0]
                 ELSE [exc |-> NoExc, start |-> b.value, end |-> e.value]
        ELSE [exc |-> HTTPException(500, <<"Fragment has no timing information", idx>>),
              start |-> 0, end |-> 0]

\* The body of the loop in parse_aeneas_output for one fragment
\* (idx is 1-based here, so it is the idx + 1 of the code).
fragment_timing(fragment, idx) ==
    IF Has(fragment.begin) /\ Has(fragment.end)
    THEN LET b == float(fragment.begin[1])
             e == float(fragment.end[1])
         IN  IF b.exc.exc # "" THEN [exc |-> b.exc, start |-> 0, end |-> 0]
             ELSE IF e.exc.exc # "" THEN [exc |-> e.exc, start |-> 0, end |-> 0]
             ELSE [exc |-> NoExc, start |-> b.value, end |-> e.value]
    ELSE LET lines == IF Has(fragment.lines) THEN fragment.lines[1] ELSE <<>>
         IN  IF lines = <<>>
             THEN [exc |-> HTTPException(500, <<"Fragment has no timing information", idx>>),
                   start |-> 0, end |-> 0]
             ELSE LET b == float(get_or_zero(lines[1].begin))
                      e == float(get_or_zero(lines[Len(lines)].end))
                  IN  IF b.exc.exc # "" THEN [exc |-> b.exc, start |-> 0, end |-> 0]
                      ELSE IF e.exc.exc # "" THEN [exc |-> e.exc, start |-> 0, end |-> 0]
                      ELSE [exc |-> NoExc, start |-> b.value, end |-> e.value]

\* A result whose text is the stripped line and not the line itself.
AlignmentResult_stripped(idx, lyrics, start, end) ==
    [line_index |-> idx, text |-> strip(lyrics[idx]), start |-> start, end |-> end]

\* AlignmentResult(line_index=idx + 1, text=lyrics[idx], start=start, end=end)
AlignmentResult(idx, lyrics, start, end) ==
    [line_index |-> idx, text |-> lyrics[idx], start |-> start, end |-> end]

\* for idx, fragment in enumerate(fragments): ... results.append(...)
RECURSIVE parse_loop(_, _, _, _)
parse_loop(fragments, lyrics, idx, results) ==
    IF idx > Len(fragments) THEN [exc |-> NoExc, results |-> results]
    ELSE LET t == fragment_timing(fragments[idx], idx)
         IN  IF t.exc.exc # "" THEN [exc |-> t.exc, results |-> <<>>]
             ELSE IF idx > Len(lyrics)
             THEN [exc |-> OtherException("IndexError"), results |-> <<>>]
             ELSE parse_loop(fragments, lyrics, idx + 1,
                             Append(results, AlignmentResult(idx, lyrics, t.start, t.end)))

\* The reconciler without its count test.
parse_aeneas_output_no_count_check(file, lyrics) ==
    IF ~file.exists \/ file.fmt = "malformed"
    THEN [exc |-> HTTPException(500, <<"Failed to parse Aeneas output">>), results |-> <<>>]
    ELSE parse_loop(IF file.fmt = "json" THEN file.data ELSE <<>>, lyrics, 1, <<>>)

\* parse_aeneas_output(output_path, lyrics), given the file at output_path.
parse_aeneas_output(file, lyrics) ==
    IF ~file.exists \/ file.fmt = "malformed"
    THEN [exc |-> HTTPException(500, <<"Failed to parse Aeneas output">>), results |-> <<>>]
    ELSE LET fragments == IF file.fmt = "json" THEN file.data ELSE <<>>
         IN  IF Len(fragments) # Len(lyrics)
             THEN [exc |-> HTTPException(500, <<"Alignment mismatch",
                                               Len(fragments), Len(lyrics)>>),
                   results |-> <<>>]
             ELSE parse_loop(fragments, lyrics, 1, <<>>)

----------------------------------------------------------------------------
(* The handler align_lyrics *)

StageOrder == <<"Fetching", "Normalizing", "WritingLyrics", "Aligning", "Reconciling">>
StageNames == Range(StageOrder)

\* The stages in which the handler sits in a blocking call
\* (urlretrieve, subprocess.run).
Blocking == {"Fetching", "Normalizing", "Aligning"}

StageIndex(stage) == CHOOSE i \in 1..Len(StageOrder) : StageOrder[i] = stage

\* What the tools may print on stderr.
Stderrs == {"stderr-1", "stderr-2"}

\* The stderr text of the concurrent specification.
FewStderrs == {"stderr-1"}

NoResp == [status |-> 0, stage |-> "", detail |-> <<>>, results |-> <<>>]

\* A response; `stage` remembers the statement that raised.
Response(status, stage, detail, results) ==
    [status |-> status, stage |-> stage, detail |-> detail, results |-> results]

\* download_audio answering 500 for a failed fetch.
download_audio_error_500 == HTTPException(500, <<"Failed to download audio">>)

\* The exception download_audio raises when urlretrieve fails.
download_audio_error == HTTPException(400, <<"Failed to download audio">>)

\* except HTTPException: raise / except Exception: raise HTTPException(500, ...)
handle(exc, stage) ==
    IF exc.exc = "HTTPException"
    THEN Response(exc.status, stage, exc.detail, <<>>)
    ELSE Response(500, stage, <<"Unexpected error", exc.detail[1]>>, <<>>)

\* A try block that goes on with the next statement after a failed conversion.
after_stage_ignoring_conversion_failure(stage, raised) ==
    IF stage = "Reconciling" \/ (raised /\ stage # "Normalizing") THEN "Cleanup"
    ELSE StageOrder[StageIndex(stage) + 1]

\* Where control goes when the statement of `stage` has returned or raised:
\* the next statement of the try block, or the finally block.
after_stage(stage, raised) ==
    IF raised \/ stage = "Reconciling" THEN "Cleanup"
    ELSE StageOrder[StageIndex(stage) + 1]

\* The statement of `stage` ends in worker w with exception exc (NoExc: none)
\* and, when it is the last one, with the results to return.
Advance(w, stage, exc, results) ==
    LET raised == exc.exc # ""
        to == after_stage(stage, raised)
    IN  /\ pc' = [pc EXCEPT ![w] = to]
        /\ stages' = [stages EXCEPT ![w] = IF to \in StageNames THEN Append(@, to) ELSE @]
        /\ resp' = [resp EXCEPT ![w] =
                        IF raised THEN handle(exc, stage)
                        ELSE IF stage = "Reconciling" THEN Response(200, "", <<>>, results)
                        ELSE @]

\* The request is read from the file at path p (nothing is read when absent).
Read(w, ps) ==
    reads' = [reads EXCEPT ![w] = @ \cup {fs[p].by : p \in {q \in ps : fs[q].exists}}]

\* The outcome of the request when os.remove raised for the paths in
\* `failing`, the exception leaving the finally block.
after_cleanup_raising(response, failing) ==
    IF failing = {} THEN response
    ELSE Response(500, "Cleanup", <<"Internal Server Error">>, <<>>)

\* The outcome of the request after the finally block: `except Exception:
\* pass` drops what os.remove raised for the paths in `failing`.
after_cleanup(response, failing) == response

\* A child process that exited non-zero.
NoChild == [tool |-> "", stderr |-> ""]
Child(tool, stderr) == [tool |-> tool, stderr |-> stderr]

----------------------------------------------------------------------------
(* Dependency preflight *)

\* What a subprocess probe (ffmpeg -version, espeak-ng --version) may meet,
\* and what the import of aeneas may meet.
ProbeOutcomes == {"ok", "nonzero", "notfound", "timeout"}
ImportOutcomes == {"ok", "importerror"}

NotProbed == [ffmpeg |-> "", espeak |-> "", aeneas |-> ""]

\* Every combination of probe outcomes.
AllProbes == [ffmpeg : ProbeOutcomes, espeak : ProbeOutcomes, aeneas : ImportOutcomes]

\* The combinations of the concurrent specification: all tools present, and
\* ffmpeg absent.
FewProbes == { [ffmpeg |-> "ok", espeak |-> "ok", aeneas |-> "ok"],
               [ffmpeg |-> "notfound", espeak |-> "ok", aeneas |-> "ok"] }

\* errors.append(...) of one probe: nothing when the probe went well.
probe_error(tool, outcome) ==
    IF outcome = "ok" THEN <<>> ELSE << [tool |-> tool, fault |-> outcome] >>

\* A preflight that gives up at the first fault it meets.
check_dependencies_first_fault_only(p) ==
    LET all == probe_error("ffmpeg", p.ffmpeg) \o probe_error("espeak", p.espeak)
               \o probe_error("aeneas", p.aeneas)
    IN  IF all = <<>> THEN all ELSE << all[1] >>

\* The errors list of check_dependencies when its probes meet p.
check_dependencies(p) ==
    probe_error("ffmpeg", p.ffmpeg) \o probe_error("espeak", p.espeak)
    \o probe_error("aeneas", p.aeneas)

\* A startup that serves whatever the preflight found.
startup_outcome_ignoring_errors(errs) == "Idle"

\* if errors: raise RuntimeError (startup fails, the process does not
\* serve); otherwise the process starts to serve.
startup_outcome(errs) == IF errs = <<>> THEN "Idle" ELSE "Refused"

Init ==
    /\ pc = [w \in Workers |-> "Starting"]
    /\ req = [w \in Workers |-> <<>>]
    /\ uid = [w \in Workers |-> 0]
    /\ fs = [p \in Paths |-> NoFile]
    /\ resp = [w \in Workers |-> NoResp]
    /\ hung = [w \in Workers |-> FALSE]
    /\ issued = 0
    /\ stages = [w \in Workers |-> <<>>]
    /\ reads = [w \in Workers |-> {}]
    /\ stuck = [w \in Workers |-> {}]
    /\ faults = 0
    /\ probes = [w \in Workers |-> NotProbed]
    /\ errors = [w \in Workers |-> <<>>]
    /\ crashed = [w \in Workers |-> NoChild]

\* startup_event: check_dependencies runs, its probes meeting some p in P.
startup_event(w, P) ==
    /\ pc[w] = "Starting"
    /\ \E p \in P :
        /\ probes' = [probes EXCEPT ![w] = p]
        /\ errors' = [errors EXCEPT ![w] = check_dependencies(p)]
    /\ pc' = [pc EXCEPT ![w] = startup_outcome(errors'[w])]
    /\ UNCHANGED <<req, uid, fs, resp, hung, issued, stages, reads, stuck, faults, crashed>>

\* GET /: the health check answers a fixed payload and changes nothing.  It
\* is a coroutine of the same event loop, so it runs when no handler does.
root(w) ==
    /\ pc[w] = "Idle"
    /\ UNCHANGED vars

\* POST /align with a body the validator refuses: 422, the handler never runs.
Reject(w, bodies) ==
    /\ pc[w] = "Idle"
    /\ \E body \in bodies :
        LET v == validate_lyrics(body)
        IN  /\ ~v.ok
            /\ req' = [req EXCEPT ![w] = body]
            /\ resp' = [resp EXCEPT ![w] = Response(422, "Validation", <<v.msg, v.index>>, <<>>)]
    /\ pc' = [pc EXCEPT ![w] = "Rejected"]
    /\ UNCHANGED <<uid, fs, hung, issued, stages, reads, stuck, faults,
                 probes, errors, crashed>>

\* POST /align with a valid body: the handler draws unique_id, derives the
\* four paths and enters download_audio.
Accept(w, bodies) ==
    /\ pc[w] = "Idle"
    /\ issued < MaxRequests
    /\ \E body \in bodies :
        /\ validate_lyrics(body).ok
        /\ req' = [req EXCEPT ![w] = body]
    /\ issued' = issued + 1
    /\ uid' = [uid EXCEPT ![w] = issued + 1]
    /\ pc' = [pc EXCEPT ![w] = "Fetching"]
    /\ stages' = [stages EXCEPT ![w] = <<"Fetching">>]
    /\ UNCHANGED <<fs, resp, hung, reads, stuck, faults, probes, errors, crashed>>

\* The blocking call of the current stage never returns: no call is given
\* a timeout.
Hang(w) ==
    /\ pc[w] \in Blocking
    /\ ~hung[w]
    /\ hung' = [hung EXCEPT ![w] = TRUE]
    /\ UNCHANGED <<pc, req, uid, fs, resp, issued, stages, reads, stuck, faults,
                 probes, errors, crashed>>

\* download_audio returns or raises; a failed transfer may leave a partial file.
download_audio(w) ==
    /\ pc[w] = "Fetching"
    /\ ~hung[w]
    /\ \/ /\ fs' = [fs EXCEPT ![downloaded_audio(uid[w])] = File(uid[w], "audio", <<>>)]
          /\ Advance(w, "Fetching", NoExc, <<>>)
       \/ /\ \E partial \in BOOLEAN :
                fs' = IF partial
                      THEN [fs EXCEPT ![downloaded_audio(uid[w])] = File(uid[w], "partial", <<>>)]
                      ELSE fs
          /\ Advance(w, "Fetching", download_audio_error, <<>>)
    /\ UNCHANGED <<req, uid, hung, issued, reads, stuck, faults, probes, errors, crashed>>

\* convert_audio_to_wav returns or raises: ffmpeg exits 0, exits non-zero
\* (with or without an output file), or is not installed.
convert_audio_to_wav(w, E) ==
    /\ pc[w] = "Normalizing"
    /\ ~hung[w]
    /\ \/ /\ fs' = [fs EXCEPT ![converted_audio(uid[w])] = File(uid[w], "wav", <<>>)]
          /\ Read(w, {downloaded_audio(uid[w])})
          /\ UNCHANGED crashed
          /\ Advance(w, "Normalizing", NoExc, <<>>)
       \/ /\ \E partial \in BOOLEAN :
                fs' = IF partial
                      THEN [fs EXCEPT ![converted_audio(uid[w])] = File(uid[w], "partial", <<>>)]
                      ELSE fs
          /\ Read(w, {downloaded_audio(uid[w])})
          /\ \E stderr \in E :
                /\ crashed' = [crashed EXCEPT ![w] = Child("ffmpeg", stderr)]
                /\ Advance(w, "Normalizing",
                           HTTPException(500, <<"Audio conversion failed", stderr>>), <<>>)
       \/ /\ UNCHANGED <<fs, reads, crashed>>
          /\ Advance(w, "Normalizing", HTTPException(500, <<"ffmpeg not found">>), <<>>)
    /\ UNCHANGED <<req, uid, hung, issued, stuck, faults, probes, errors>>

\* write_lyrics_file returns or raises: empty list, open() fails, or the
\* file is written.
write_lyrics_file(w) ==
    /\ pc[w] = "WritingLyrics"
    /\ IF req[w] = <<>>
       THEN /\ UNCHANGED fs
            /\ Advance(w, "WritingLyrics",
                       HTTPException(400, <<"Lyrics array cannot be empty">>), <<>>)
       ELSE \/ /\ UNCHANGED fs
               /\ Advance(w, "WritingLyrics", OtherException("OSError"), <<>>)
            \/ /\ fs' = [fs EXCEPT ![lyrics_file(uid[w])] =
                            File(uid[w], "text", lyrics_text(req[w]))]
               /\ Advance(w, "WritingLyrics", NoExc, <<>>)
    /\ UNCHANGED <<req, uid, hung, issued, reads, stuck, faults, probes, errors, crashed>>

\* run_aeneas_alignment returns or raises: the engine exits 0 having written
\* some output (or none), exits non-zero, or the interpreter is not found.
run_aeneas_alignment(w, F, E) ==
    /\ pc[w] = "Aligning"
    /\ ~hung[w]
    /\ \/ /\ \E out \in EngineOutputs(uid[w], Len(req[w]), F) :
                fs' = IF out.exists THEN [fs EXCEPT ![alignment_output(uid[w])] = out]
                      ELSE fs
          /\ Read(w, {converted_audio(uid[w]), lyrics_file(uid[w])})
          /\ UNCHANGED crashed
          /\ Advance(w, "Aligning", NoExc, <<>>)
       \/ /\ \E partial \in BOOLEAN :
                fs' = IF partial
                      THEN [fs EXCEPT ![alignment_output(uid[w])] =
                                File(uid[w], "malformed", <<>>)]
                      ELSE fs
          /\ Read(w, {converted_audio(uid[w]), lyrics_file(uid[w])})
          /\ \E stderr \in E :
                /\ crashed' = [crashed EXCEPT ![w] = Child("aeneas", stderr)]
                /\ Advance(w, "Aligning",
                           HTTPException(500, <<"Aeneas alignment failed", stderr>>), <<>>)
       \/ /\ UNCHANGED <<fs, reads, crashed>>
          /\ Advance(w, "Aligning", HTTPException(500, <<"Aeneas not found">>), <<>>)
    /\ UNCHANGED <<req, uid, hung, issued, stuck, faults, probes, errors>>

\* results = parse_aeneas_output(alignment_output, request.lyrics); return results
Reconcile(w) ==
    /\ pc[w] = "Reconciling"
    /\ LET r == parse_aeneas_output(fs[alignment_output(uid[w])], req[w])
       IN  Advance(w, "Reconciling", r.exc, r.results)
    /\ Read(w, {alignment_output(uid[w])})
    /\ UNCHANGED <<req, uid, fs, hung, issued, stuck, faults, probes, errors, crashed>>

\* The finally block: each listed path that exists is removed, unless
\* os.remove raises, which is ignored and leaves the file.  The environment
\* makes os.remove raise at most `budget` times in a behaviour.
Cleanup(w, budget) ==
    /\ pc[w] = "Cleanup"
    /\ LET listed == Range(cleanup_list(uid[w]))
           present == {p \in listed : fs[p].exists}
       IN  \E failing \in SUBSET present :
            /\ faults + Cardinality(failing) <= budget
            /\ faults' = faults + Cardinality(failing)
            /\ stuck' = [stuck EXCEPT ![w] = failing]
            /\ fs' = [p \in Paths |-> IF p \in present \ failing THEN NoFile ELSE fs[p]]
            /\ resp' = [resp EXCEPT ![w] = after_cleanup(@, failing)]
    /\ pc' = [pc EXCEPT ![w] = IF resp'[w].status = 200 THEN "Done" ELSE "Failed"]
    /\ UNCHANGED <<req, uid, hung, issued, stages, reads, probes, errors, crashed>>

\* The response leaves; the server process is free for the next request.
Respond(w) ==
    /\ pc[w] \in {"Done", "Failed", "Rejected"}
    /\ pc' = [pc EXCEPT ![w] = "Idle"]
    /\ req' = [req EXCEPT ![w] = <<>>]
    /\ uid' = [uid EXCEPT ![w] = 0]
    /\ resp' = [resp EXCEPT ![w] = NoResp]
    /\ stages' = [stages EXCEPT ![w] = <<>>]
    /\ reads' = [reads EXCEPT ![w] = {}]
    /\ stuck' = [stuck EXCEPT ![w] = {}]
    /\ crashed' = [crashed EXCEPT ![w] = NoChild]
    /\ UNCHANGED <<fs, hung, issued, faults, probes, errors>>

\* The steps the handler takes by itself once the request is in.
Progress(w) ==
    \/ download_audio(w)
    \/ write_lyrics_file(w)
    \/ Reconcile(w)
    \/ Respond(w)

\* Server processes sharing /tmp, with few request bodies and engine outputs.
Next ==
    \E w \in Workers :
        \/ startup_event(w, FewProbes)
        \/ root(w)
        \/ Reject(w, FewLyrics)
        \/ Accept(w, FewLyrics)
        \/ Hang(w)
        \/ convert_audio_to_wav(w, FewStderrs)
        \/ run_aeneas_alignment(w, FewFragments, FewStderrs)
        \/ Cleanup(w, MaxRemoveFaults)
        \/ Progress(w)

Spec == Init /\ [][Next]_vars

\* The same, with every handler taking its steps as long as it can.
FairSpec ==
    /\ Spec
    /\ \A w \in Workers : WF_vars(Progress(w) \/ convert_audio_to_wav(w, FewStderrs)
                                    \/ run_aeneas_alignment(w, FewFragments, FewStderrs)
                                    \/ Cleanup(w, MaxRemoveFaults))

\* One server process, with every lyrics list and every engine output,
\* in an environment where os.remove does not fail.
SoloNext ==
    \/ startup_event("w1", AllProbes)
    \/ root("w1")
    \/ Reject("w1", AllLyrics)
    \/ Accept("w1", AllLyrics)
    \/ Hang("w1")
    \/ convert_audio_to_wav("w1", Stderrs)
    \/ run_aeneas_alignment("w1", FragmentSet, Stderrs)
    \/ Cleanup("w1", 0)
    \/ Progress("w1")

SoloSpec == Init /\ [][SoloNext]_vars

----------------------------------------------------------------------------
(* Properties *)

Terminal(w) == pc[w] \in {"Done", "Failed"}

Failure(w) == resp[w].status \notin {0, 200}

IsPrefix(s, t) == Len(s) <= Len(t) /\ \A i \in 1..Len(s) : s[i] = t[i]

\* The fragment list parse_aeneas_output sees in a file json.load accepts.
FragmentsOf(file) == IF file.fmt = "json" THEN file.data ELSE <<>>

\* C1 as stated: once a request is Done or Failed, none of its four
\* temporary files exists in the scratch directory.
C1_NoTempFileAfterTerminal ==
    \A w \in Workers :
        Terminal(w) => \A p \in OwnPaths(uid[w]) : ~fs[p].exists

\* C1 amended: once a request is Done or Failed, the only temporary files of
\* it that still exist are those whose os.remove raised during cleanup.
C1_OnlyStuckFilesRemain ==
    \A w \in Workers :
        Terminal(w) => \A p \in OwnPaths(uid[w]) : fs[p].exists => p \in stuck[w]

\* A request that failed in reconciliation, after every earlier stage wrote
\* its file, is Failed with cleanup done and nothing left.
C1_Witness ==
    \E w \in Workers :
        /\ pc[w] = "Failed"
        /\ resp[w].stage = "Reconciling"
        /\ reads[w] = {uid[w]}
        /\ stuck[w] = {}
        /\ \A p \in OwnPaths(uid[w]) : ~fs[p].exists

\* C2: a successful response to N lines holds exactly N results, with
\* line_index 1..N in order and text equal to the input line, verbatim.
C2_ResultsMatchLines ==
    \A w \in Workers :
        resp[w].status = 200 =>
            /\ Len(resp[w].results) = Len(req[w])
            /\ \A i \in 1..Len(req[w]) :
                /\ resp[w].results[i].line_index = i
                /\ resp[w].results[i].text = req[w][i]

\* A successful response to two different lines, one of which str.strip()
\* would change.
C2_Witness ==
    \E w \in Workers :
        /\ pc[w] = "Done"
        /\ Len(req[w]) = 2
        /\ req[w][1] # req[w][2]
        /\ strip(req[w][1]) # req[w][1]
        /\ Len(resp[w].results) = 2

\* C3 as stated: every result of a successful response has start >= 0 and
\* end >= start.
C3_TimesOrdered ==
    \A w \in Workers :
        resp[w].status = 200 =>
            \A i \in 1..Len(resp[w].results) :
                /\ resp[w].results[i].start >= 0
                /\ resp[w].results[i].end >= resp[w].results[i].start

\* C4 as stated: every accepted request eventually reaches Done or Failed.
C4_EventuallyTerminal ==
    \A w \in Workers : (pc[w] \in StageNames) ~> Terminal(w)

\* C5: a request with a line holding a line break is rejected by validation,
\* and rejecting it draws no unique_id, starts no stage and touches no file.
C5_LineBreakRejected ==
    /\ [](\A w \in Workers :
            (\E i \in 1..Len(req[w]) : HasLineBreak(req[w][i])) =>
                /\ pc[w] = "Rejected"
                /\ resp[w].status = 422
                /\ uid[w] = 0
                /\ stages[w] = <<>>
                /\ reads[w] = {})
    /\ [][\A w \in Workers :
            (pc[w] # "Rejected" /\ pc'[w] = "Rejected") =>
                (fs' = fs /\ issued' = issued)]_vars

\* A rejected request whose second line holds the line break.
C5_Witness ==
    \E w \in Workers :
        /\ pc[w] = "Rejected"
        /\ Len(req[w]) = 2
        /\ ~HasLineBreak(req[w][1])
        /\ HasLineBreak(req[w][2])

\* C6: a request with an empty lyrics list is rejected by validation and no
\* stage runs for it.
C6_EmptyRejected ==
    \A w \in Workers :
        (pc[w] \notin {"Starting", "Refused", "Idle"} /\ req[w] = <<>>) =>
            /\ pc[w] = "Rejected"
            /\ resp[w].status = 422
            /\ uid[w] = 0
            /\ stages[w] = <<>>

\* A rejected request with an empty lyrics list.
C6_Witness ==
    \E w \in Workers :
        pc[w] = "Rejected" /\ req[w] = <<>> /\ resp[w].detail[1] = "lyrics cannot be empty"

\* C7: when the engine's output holds a number of fragments other than the
\* number of lines, reconciliation ends the request with a 500 failure and
\* no results, and a failed request never carries results.
C7_MismatchFails ==
    /\ [][\A w \in Workers :
            LET file == fs[alignment_output(uid[w])]
            IN  ( /\ pc[w] = "Reconciling"
                  /\ pc'[w] # "Reconciling"
                  /\ file.exists
                  /\ file.fmt # "malformed"
                  /\ Len(FragmentsOf(file)) # Len(req[w]) ) =>
                    /\ pc'[w] = "Cleanup"
                    /\ resp'[w].status = 500
                    /\ resp'[w].stage = "Reconciling"
                    /\ resp'[w].results = <<>>]_vars
    /\ [][\A w \in Workers :
            (pc[w] = "Cleanup" /\ pc'[w] # "Cleanup" /\ Failure(w)) =>
                (pc'[w] = "Failed" /\ resp'[w] = resp[w])]_vars
    /\ [](\A w \in Workers : Failure(w) => resp[w].results = <<>>)

\* A request Failed because the engine wrote more fragments than lines.
C7_Witness ==
    \E w \in Workers :
        /\ pc[w] = "Failed"
        /\ resp[w].status = 500
        /\ Len(resp[w].detail) = 3
        /\ resp[w].detail[2] > resp[w].detail[3]

\* C8: the stages a request has started are a prefix of Fetching,
\* Normalizing, WritingLyrics, Aligning, Reconciling (in order, each once);
\* the stage it is in is the last one started; once a stage has failed the
\* request is in cleanup or Failed and the failed stage is the last started.
C8_StagesInOrder ==
    \A w \in Workers :
        /\ IsPrefix(stages[w], StageOrder)
        /\ pc[w] \in StageNames =>
              (Len(stages[w]) > 0 /\ stages[w][Len(stages[w])] = pc[w])
        /\ Failure(w) =>
              /\ pc[w] \in {"Cleanup", "Failed", "Rejected"}
              /\ resp[w].stage \in StageNames =>
                    (Len(stages[w]) > 0 /\ stages[w][Len(stages[w])] = resp[w].stage)

\* A request Failed in normalization, having started two stages only.
C8_Witness ==
    \E w \in Workers :
        /\ pc[w] = "Failed"
        /\ resp[w].stage = "Normalizing"
        /\ stages[w] = <<"Fetching", "Normalizing">>

\* C9: a request that entered the pipeline and failed carries status 400
\* exactly when the fetch failed, and status 500 otherwise.
C9_FailureClass ==
    \A w \in Workers :
        (pc[w] \in {"Cleanup", "Failed"} /\ Failure(w)) =>
            /\ resp[w].status \in {400, 500}
            /\ resp[w].status = 400 <=> resp[w].stage = "Fetching"

\* A request Failed with 400 in the fetch.
C9_Witness ==
    \E w \in Workers :
        pc[w] = "Failed" /\ resp[w].status = 400 /\ resp[w].stage = "Fetching"

\* Whether the file at p differs between the two states of a step.
Touched(p) ==
    \/ fs'[p].exists # fs[p].exists
    \/ fs'[p].by # fs[p].by
    \/ fs'[p].fmt # fs[p].fmt

\* C10: requests in flight at the same time have disjoint temporary paths;
\* a request reads only files it wrote; every file sits at a path of the
\* request that wrote it; a step creates, overwrites or deletes files only
\* at the paths of the request taking it.
C10_Isolation ==
    /\ [](\A w \in Workers :
            /\ \A v \in Workers \ {w} :
                  (uid[w] # 0 /\ uid[v] # 0) =>
                      OwnPaths(uid[w]) \cap OwnPaths(uid[v]) = {}
            /\ reads[w] \subseteq {uid[w]})
    /\ [](\A p \in Paths : fs[p].exists => p \in OwnPaths(fs[p].by))
    /\ [][\A p \in Paths :
            Touched(p) =>
                \E w \in Workers : pc'[w] # pc[w] /\ p \in OwnPaths(uid[w])]_vars

\* Two requests in the alignment stage at once, each with its own files.
C10_Witness ==
    \E w \in Workers : \E v \in Workers \ {w} :
        /\ pc[w] = "Aligning" /\ pc[v] = "Aligning"
        /\ fs[lyrics_file(uid[w])].exists /\ fs[lyrics_file(uid[v])].exists

\* C11 as stated: while the request of a server process is blocked in the
\* fetch or in an external-process call, the process can take in another
\* request or answer GET /.
C11_AcceptsWhileBlocked ==
    \A w \in Workers :
        pc[w] \in Blocking =>
            ENABLED (Accept(w, FewLyrics) \/ Reject(w, FewLyrics) \/ root(w))

Tools == {"ffmpeg", "espeak", "aeneas"}

\* The tools whose probe did not go well in the startup of w.
FailedProbes(w) == {t \in Tools : probes[w][t] # "ok"}

\* C12: once the preflight has run, its errors list holds exactly one entry
\* for each tool whose probe failed, whatever the other probes met, each
\* entry telling the fault met; the process refuses to serve exactly when
\* the list is not empty.
C12_PreflightCollectsAll ==
    \A w \in Workers :
        pc[w] # "Starting" =>
            /\ {errors[w][i].tool : i \in 1..Len(errors[w])} = FailedProbes(w)
            /\ Len(errors[w]) = Cardinality(FailedProbes(w))
            /\ \A i \in 1..Len(errors[w]) :
                  errors[w][i].fault = probes[w][errors[w][i].tool]
            /\ pc[w] = "Refused" <=> errors[w] # <<>>

\* A startup refused with three faults of three kinds: the probes after
\* the first failed one still ran.
C12_Witness ==
    \E w \in Workers :
        /\ pc[w] = "Refused"
        /\ probes[w].ffmpeg = "notfound"
        /\ probes[w].espeak = "timeout"
        /\ probes[w].aeneas = "importerror"
        /\ Len(errors[w]) = 3

\* C13: a process that serves (is idle or handles a request) has run the
\* preflight and found no fault; the preflight runs only in the startup
\* step, and no process goes back to startup.
C13_ServesOnlyAfterCleanPreflight ==
    /\ [](\A w \in Workers :
            pc[w] \notin {"Starting", "Refused"} =>
                /\ \A t \in Tools : probes[w][t] = "ok"
                /\ errors[w] = <<>>)
    /\ [][\A w \in Workers :
            /\ (probes'[w] # probes[w] \/ errors'[w] # errors[w]) =>
                  (pc[w] = "Starting" /\ pc'[w] # "Starting")
            /\ pc'[w] = "Starting" => pc[w] = "Starting"]_vars

\* A request answered by a process whose preflight found every tool.
C13_Witness ==
    \E w \in Workers :
        pc[w] = "Done" /\ \A t \in Tools : probes[w][t] = "ok"

\* The stage a failure detail names, "" when it names none.
StageNamedBy(detail) ==
    CASE detail[1] = "Failed to download audio" -> "Fetching"
      [] detail[1] \in {"Audio conversion failed", "ffmpeg not found"} -> "Normalizing"
      [] detail[1] = "Lyrics array cannot be empty" -> "WritingLyrics"
      [] detail[1] \in {"Aeneas alignment failed", "Aeneas not found"} -> "Aligning"
      [] detail[1] \in {"Failed to parse Aeneas output", "Alignment mismatch",
                        "Fragment has no timing information"} -> "Reconciling"
      [] OTHER -> ""

\* C14 as stated: the detail of every failure of an accepted request names
\* the stage that failed, and when a tool exited non-zero the detail holds
\* the tool's stderr unchanged.
C14_FailureNamesStage ==
    \A w \in Workers :
        (pc[w] \in {"Cleanup", "Failed"} /\ Failure(w)) =>
            /\ StageNamedBy(resp[w].detail) = resp[w].stage
            /\ crashed[w].tool # "" =>
                  (Len(resp[w].detail) = 2 /\ resp[w].detail[2] = crashed[w].stderr)

\* C15: the finally block leaves the response as the stages made it, also
\* when os.remove raised: a success stays Done, a failure stays the same
\* failure.
C15_CleanupKeepsOutcome ==
    [][\A w \in Workers :
        (pc[w] = "Cleanup" /\ pc'[w] # "Cleanup") =>
            /\ resp'[w].status = resp[w].status
            /\ resp'[w].stage = resp[w].stage
            /\ resp'[w].results = resp[w].results
            /\ Len(resp'[w].detail) = Len(resp[w].detail)
            /\ pc'[w] = IF resp[w].status = 200 THEN "Done" ELSE "Failed"]_vars

\* A request Done although os.remove raised for one of its files.
C15_Witness ==
    \E w \in Workers :
        pc[w] = "Done" /\ resp[w].status = 200 /\ stuck[w] # {}

\* Whether w takes the reconciling step between the two states.
Reconciles(w) == pc[w] = "Reconciling" /\ pc'[w] # "Reconciling"

\* The shapes of a fragment.
DirectPair(f) == Has(f.begin) /\ Has(f.end)
Nested(f) == IF Has(f.lines) THEN f.lines[1] ELSE <<>>
NoShape(f) == ~DirectPair(f) /\ Nested(f) = <<>>

\* C16: in the reconciling step a fragment without a direct pair and without
\* a non-empty nested sequence fails the request with status 500; in a
\* successful answer the times of a fragment with a direct pair are that
\* pair, also when nested records are there too, and the times of any other
\* fragment are the begin of its first nested record and the end of its
\* last one.
C16_SpanDerivation ==
    [][\A w \in Workers :
        (Reconciles(w) /\ fs[alignment_output(uid[w])].fmt = "json") =>
            LET frs == fs[alignment_output(uid[w])].data
                out == resp'[w]
            IN  /\ (\E i \in 1..Len(frs) : NoShape(frs[i])) =>
                      (out.status = 500 /\ out.results = <<>>)
                /\ out.status = 200 =>
                      /\ Len(out.results) = Len(frs)
                      /\ \A i \in 1..Len(frs) :
                          LET f == frs[i]
                              n == Nested(f)
                          IN  /\ DirectPair(f) =>
                                    /\ out.results[i].start = f.begin[1].n
                                    /\ out.results[i].end = f.end[1].n
                              /\ (~DirectPair(f) /\ Has(n[1].begin)) =>
                                    out.results[i].start = n[1].begin[1].n
                              /\ (~DirectPair(f) /\ Has(n[Len(n)].end)) =>
                                    out.results[i].end = n[Len(n)].end[1].n]_vars

\* A successful answer for two fragments: one with a direct pair (0, 1) and
\* nested records (5, 6), timed (0, 1), and one with nested records only,
\* (1, 2) and (3, 4), timed (1, 4).
C16_Witness ==
    \E w \in Workers :
        /\ pc[w] = "Cleanup" /\ resp[w].status = 200
        /\ fs[alignment_output(uid[w])].fmt = "json"
        /\ LET frs == fs[alignment_output(uid[w])].data
           IN  /\ Len(frs) = 2
               /\ DirectPair(frs[1]) /\ Nested(frs[1]) # <<>>
               /\ ~DirectPair(frs[2]) /\ Len(Nested(frs[2])) = 2
               /\ resp[w].results[1].start = 0 /\ resp[w].results[1].end = 1
               /\ resp[w].results[2].start = 1 /\ resp[w].results[2].end = 4

\* The lines of a text, each ended by "\n" (a rest without "\n" is a line).
RECURSIVE SplitLines(_)
SplitLines(data) ==
    IF data = <<>> THEN <<>>
    ELSE LET breaks == {i \in 1..Len(data) : data[i] = "\n"}
         IN  IF breaks = {} THEN <<data>>
             ELSE <<SubSeq(data, 1, Min(breaks) - 1)>>
                      \o SplitLines(SubSeq(data, Min(breaks) + 1, Len(data)))

\* s is t without its leading and trailing whitespace.
IsStripOf(s, t) ==
    /\ s # <<>> => (~IsSpace(s[1]) /\ ~IsSpace(s[Len(s)]))
    /\ \E a, b \in 0..Len(t) :
          /\ a + b <= Len(t)
          /\ s = SubSeq(t, a + 1, Len(t) - b)
          /\ \A i \in 1..a : IsSpace(t[i])
          /\ \A i \in (Len(t) - b + 1)..Len(t) : IsSpace(t[i])

\* C17: the lyrics file of a request in the pipeline has exactly as many
\* lines as the request, and its i-th line is the i-th line of the request
\* without leading and trailing whitespace.
C17_LyricsFileLines ==
    \A w \in Workers :
        (uid[w] # 0 /\ fs[lyrics_file(uid[w])].exists) =>
            LET written == SplitLines(fs[lyrics_file(uid[w])].data)
            IN  /\ Len(written) = Len(req[w])
                /\ \A i \in 1..Len(req[w]) : IsStripOf(written[i], req[w][i])

\* Two lines written, the first of them changed by the stripping.
C17_Witness ==
    \E w \in Workers :
        /\ uid[w] # 0 /\ fs[lyrics_file(uid[w])].exists
        /\ Len(req[w]) = 2
        /\ req[w][1] = <<" ", "b", " ">>
        /\ SplitLines(fs[lyrics_file(uid[w])].data)[1] = <<"b">>

\* C18 as stated: every line of a request that passed validation is a
\* non-empty string without a line break.
C18_LinesNonEmpty ==
    \A w \in Workers :
        uid[w] # 0 =>
            \A i \in 1..Len(req[w]) : req[w][i] # <<>> /\ ~HasLineBreak(req[w][i])

\* Whether float() accepts the value under an optional key (an absent key
\* stands for the default).
Numeric(opt) == ~Has(opt) \/ opt[1].ok

\* A fragment whose timing raises nothing but for a missing nested key.
Usable(f) ==
    IF DirectPair(f) THEN f.begin[1].ok /\ f.end[1].ok
    ELSE /\ Nested(f) # <<>>
         /\ Numeric(Nested(f)[1].begin)
         /\ Numeric(Nested(f)[Len(Nested(f))].end)

\* C19: when the engine wrote one fragment per line and nothing but begin of
\* a first nested record or end of a last nested record is missing, the
\* reconciling step answers 200 with one result per line, and the result
\* of a fragment timed by its nested records has start 0 where the first
\* begin is missing and end 0 where the last end is missing.
C19_MissingNestedIsZero ==
    [][\A w \in Workers :
        (/\ Reconciles(w)
         /\ fs[alignment_output(uid[w])].fmt = "json"
         /\ Len(fs[alignment_output(uid[w])].data) = Len(req[w])
         /\ \A i \in 1..Len(req[w]) : Usable(fs[alignment_output(uid[w])].data[i])) =>
            LET frs == fs[alignment_output(uid[w])].data
                out == resp'[w]
            IN  /\ out.status = 200
                /\ Len(out.results) = Len(req[w])
                /\ \A i \in 1..Len(frs) :
                      LET n == Nested(frs[i])
                      IN  ~DirectPair(frs[i]) =>
                            /\ ~Has(n[1].begin) => out.results[i].start = 0
                            /\ ~Has(n[Len(n)].end) => out.results[i].end = 0]_vars

\* A successful answer whose only fragment has a first nested record
\* without begin and a last one without end: the result is (0, 0).
C19_Witness ==
    \E w \in Workers :
        /\ pc[w] = "Cleanup" /\ resp[w].status = 200
        /\ fs[alignment_output(uid[w])].fmt = "json"
        /\ LET frs == fs[alignment_output(uid[w])].data
           IN  /\ Len(frs) = 1
               /\ ~DirectPair(frs[1]) /\ Nested(frs[1]) # <<>>
               /\ ~Has(Nested(frs[1])[1].begin)
               /\ ~Has(Nested(frs[1])[Len(Nested(frs[1]))].end)
               /\ resp[w].results[1].start = 0 /\ resp[w].results[1].end = 0

\* C20: the cleanup of a request is always able to run, whatever files
\* exist; the files it changes are files at the request's own four paths
\* that existed before the step and are gone after it; every other file of
\* the scratch directory is as before.
C20_CleanupFrame ==
    /\ [](\A w \in Workers : pc[w] = "Cleanup" => ENABLED Cleanup(w, MaxRemoveFaults))
    /\ [][\A w \in Workers :
            (pc[w] = "Cleanup" /\ pc'[w] # "Cleanup") =>
                \A p \in Paths :
                    /\ Touched(p) =>
                          (p \in OwnPaths(uid[w]) /\ fs[p].exists /\ ~fs'[p].exists)
                    /\ p \notin OwnPaths(uid[w]) => fs'[p] = fs[p]]_vars

\* A request that failed in the fetch and was cleaned up with none of its
\* files ever written, while a file of another request in flight exists.
C20_Witness ==
    \E w \in Workers :
        /\ pc[w] = "Failed" /\ resp[w].stage = "Fetching"
        /\ \A p \in OwnPaths(uid[w]) : ~fs[p].exists
        /\ \E v \in Workers \ {w} :
              uid[v] # 0 /\ \E p \in OwnPaths(uid[v]) : fs[p].exists

====
